---- MODULE Spec2Model ----
(***************************************************************************)
(* A model of card_identifier's matching engine (src/src/utils.py,         *)
(* CardMatcher) and of its live camera pipeline                            *)
(* (src/src/camera_analyzer.py, CameraAnalyzer).                           *)
(*                                                                         *)
(* Scores are Python floats of the form 100 - sum/K over integer Hamming   *)
(* distances; they are kept here as exact fractions [n, d] (value n/d) and *)
(* compared by cross-multiplication, so no rounding is introduced.         *)
(***************************************************************************)
EXTENDS Integers, Sequences, FiniteSets, TLC

\* ------------------------------------------------------------ bounds
MaxK == 2          \* largest min_match_count tried by MatchSpec
MaxMatches == 2    \* longest BFMatcher output per reference card in MatchSpec
MaxSessions == 2   \* run_camera calls on one CameraAnalyzer
MaxFrames == 2     \* frames read from the device over the analyzer's life
MaxFiles == 2      \* files listed in a card-set directory in BuildSpec
MaxBoxes == 3      \* boxes the detection model returns for one image

\* ------------------------------------------------------------ constants
DefaultMinMatchCount == 20
DefaultScoreThreshold == 45
DisplayCount == 3
QueueMaxSize == 1

\* Card identities "{set}/{name}" known to the models.
CardIds == {"hSD01/001", "hSD01/002"}
\* Hamming distances a DMatch may carry in MatchSpec (ORB: 0..256); 55 puts a
\* score exactly on the default threshold, 200 drives 100 - avg below zero.
Distances == {10, 55, 200}
\* score_threshold values a CardMatcher is constructed with in MatchSpec.
Thresholds == {DefaultScoreThreshold, 0}

VARIABLES
  \* CardMatcher attributes (utils.py:87-90)
  reference_cards,   \* dict key order: a sequence of distinct card ids
  min_match_count,
  score_threshold,
  reference_dir,     \* what the file system holds at self.reference_dir
  card_info,         \* per card id: the file its entry was loaded from
  ctor,              \* CardMatcher.__init__: "new" before, "built" after
  \* the last find_matches call made directly on the matcher (MatchSpec)
  call,
  \* two scoring passes against one reference card (ScoreSpec)
  scored,
  \* the last CardDetector.detect call (DetectSpec)
  detect_call,
  \* CameraAnalyzer attributes (camera_analyzer.py:26-29)
  current_matches,
  matches_lock,      \* LockFree, or the holder: HeldByMain or HeldBy(w)
  processing_queue,
  is_running,
  \* run_camera / process_frame: the capture thread
  main_pc,
  cap,               \* "none" | "unopened" | "open" | "released"
  exc,               \* an exception is propagating through the finally block
  session,           \* number of run_camera calls so far
  frames,            \* frames read so far (names the batch of a frame)
  detections_with_images,  \* process_frame's local batch
  seen,              \* process_frame's local copy of current_matches
  \* matching_worker threads, one per session that started one
  wpc, wbatch, widx, new_matches,
  \* history
  dropped,           \* ids of batches whose put_nowait raised Full
  skipped,           \* ids of frames whose batch was empty and not submitted
  abandoned,         \* ids of batches a worker gave up on an exception
  published,         \* the batch whose results were assigned last
  atStop             \* per worker: where it stood when is_running was cleared

vars == <<reference_cards, min_match_count, score_threshold, reference_dir,
          card_info, ctor, call, scored, detect_call,
          current_matches, matches_lock, processing_queue, is_running,
          main_pc, cap, exc, session, frames, detections_with_images,
          seen, wpc, wbatch, widx, new_matches, dropped, skipped, abandoned,
          published, atStop>>

\* ------------------------------------------------------------ helpers
Max2(a, b) == IF a >= b THEN a ELSE b

SeqsUpTo(S, n) == UNION {[1..m -> S] : m \in 0..n}

Range(s) == {s[i] : i \in DOMAIN s}

\* Sequences over S without repetition (dict key orders).
DistinctSeqs(S) ==
  {s \in SeqsUpTo(S, Cardinality(S)) : \A i, j \in DOMAIN s : i # j => s[i] # s[j]}

\* A float score as the exact fraction n/d, d > 0.
Frac(n, d) == [n |-> n, d |-> d]
Zero == Frac(0, 1)
FracGE(a, b) == a.n * b.d >= b.n * a.d
FracGT(a, b) == a.n * b.d > b.n * a.d
FracGTInt(a, t) == a.n > t * a.d

RECURSIVE SumFirst(_, _)
SumFirst(s, k) == IF k = 0 THEN 0 ELSE s[k] + SumFirst(s, k - 1)

\* sorted(matches, key=lambda x: x.distance) (utils.py:203): the stable
\* ascending sort; an element's place is the number of elements that go
\* before it.
SortByDistance(s) ==
  LET place(j) == Cardinality({k \in DOMAIN s :
                                 s[k] < s[j] \/ (s[k] = s[j] /\ k <= j)})
  IN [i \in DOMAIN s |-> s[CHOOSE j \in DOMAIN s : place(j) = i]]

\* ------------------------------------------------------------ CardMatcher
\* A query image, as far as matching sees it: whether feature extraction gave
\* descriptors, and for each reference card the distances of the DMatch list
\* BFMatcher.match returns for it (in the matcher's order, not yet sorted).
\* _extract_features (utils.py:99-112): the descriptors, or None (FALSE) when the
\* detector found none or raised.
_extract_features(q) == q.desc

\* _calculate_match_score (utils.py:114-129); matches are distances.
calculate_no_floor(matches, min_count) ==
  IF Len(matches) < min_count THEN Zero
  ELSE Frac(100 * min_count - SumFirst(matches, min_count), min_count)
calculate_over_all(matches, min_count) ==
  IF Len(matches) < min_count THEN Zero
  ELSE LET sum == SumFirst(matches, Len(matches))
       IN IF 100 * Len(matches) - sum > 0
          THEN Frac(100 * Len(matches) - sum, Len(matches))
          ELSE Zero
_calculate_match_score(matches, min_count) ==
  IF Len(matches) < min_count THEN Zero
  ELSE LET sum == SumFirst(matches, min_count)
       IN IF 100 * min_count - sum > 0
          THEN Frac(100 * min_count - sum, min_count)
          ELSE Zero

\* min_match_count = min_match_count or self.min_match_count (utils.py:190);
\* None and 0 are both falsy and are both written 0.
EffectiveK(k_arg, self_k) == IF k_arg # 0 THEN k_arg ELSE self_k

\* The score find_matches computes for one reference card (utils.py:202-206).
CardScore(q, c, K) == _calculate_match_score(SortByDistance(q.out[c]), K)

\* if score > self.score_threshold (utils.py:207)
keeps_at_threshold(score, threshold) == FracGE(score, Frac(threshold, 1))
PassesThreshold(score, threshold) == FracGTInt(score, threshold)

\* sorted(matches_list, key=lambda x: x[1], reverse=True) (utils.py:211): stable,
\* equal scores keep their order.
unsorted_result(s) == s
SortByScoreDesc(s) ==
  LET place(j) == Cardinality({k \in DOMAIN s :
                                 \/ FracGT(s[k][2], s[j][2])
                                 \/ (~ FracGT(s[j][2], s[k][2]) /\ k <= j)})
  IN [i \in DOMAIN s |-> s[CHOOSE j \in DOMAIN s : place(j) = i]]

\* The loop of find_matches over self.reference_cards.items() (utils.py:197-208).
RECURSIVE MatchesList(_, _, _, _)
MatchesList(refs, q, K, threshold) ==
  IF refs = <<>> THEN <<>>
  ELSE LET c == refs[Len(refs)]
           score == CardScore(q, c, K)
           rest == MatchesList(SubSeq(refs, 1, Len(refs) - 1), q, K, threshold)
       IN IF PassesThreshold(score, threshold)
          THEN Append(rest, <<c, score>>)
          ELSE rest

\* find_matches (utils.py:180-211).
find_matches(refs, self_k, threshold, q, k_arg) ==
  IF ~ _extract_features(q) THEN <<>>
  ELSE SortByScoreDesc(MatchesList(refs, q, EffectiveK(k_arg, self_k), threshold))

\* ------------------------------------------------------------ index build
\* The directory at reference_dir as os.path.exists, os.listdir and
\* os.path.isdir show it: whether it exists, and its entries in listing order;
\* an entry is a card-set directory with its own listing, or a plain file. A
\* file is its name split at the extension and what reading it does: "ok"
\* decodes and has descriptors, "undecodable" makes cv2.imread return None,
\* "raises" makes the processing raise, "nodesc" gives descriptors None.
Stems == {"001", "002"}
ImageExts == {"png", "JPG"}
Contents == {"ok", "undecodable", "raises", "nodesc"}

File(stem, ext, content) == [stem |-> stem, ext |-> ext, content |-> content]
Files ==
  {File(st, e, c) : st \in Stems, e \in ImageExts, c \in Contents}
    \cup {File(st, "txt", "ok") : st \in Stems}

\* A directory listing: no two files of one directory have the same name.
Listings(n) ==
  {l \in SeqsUpTo(Files, n) :
     \A i, j \in DOMAIN l :
       i # j => (l[i].stem # l[j].stem \/ l[i].ext # l[j].ext)}

SetDir(name, files) == [name |-> name, isdir |-> TRUE, files |-> files]
PlainFile(name) == [name |-> name, isdir |-> FALSE, files |-> <<>>]
Tree(exists, entries) == [exists |-> exists, entries |-> entries]

\* card_file.lower() (utils.py:171) on the extension.
Lower(ext) == IF ext = "JPG" THEN "jpg" ELSE ext

\* card_file.lower().endswith(('.png', '.jpg', '.jpeg')) (utils.py:171).
IsImageFile(f) == Lower(f.ext) \in {"png", "jpg", "jpeg"}

\* os.path.join(set_dir, card_file) (utils.py:174).
CardPath(card_set, f) == [dir |-> card_set, file |-> f]

\* os.path.splitext(card_file)[0] (utils.py:175).
SplitExtStem(f) == f.stem

\* card_id = f"{card_set}/{card_name}" (utils.py:146).
CardId(card_set, card_name) == card_set \o "/" \o card_name

\* The dict self.reference_cards as its key order and, per key, the file whose
\* image and descriptors the entry holds.
EmptyIndex == [keys |-> <<>>, info |-> <<>>]

\* self.reference_cards[card_id] = {...} (utils.py:147-153): a new key goes to
\* the end, an existing key keeps its place and gets the new value.
DictSet(index, key, value) ==
  [keys |-> IF key \in Range(index.keys) THEN index.keys
            ELSE Append(index.keys, key),
   info |-> [k \in Range(index.keys) \cup {key} |->
               IF k = key THEN value ELSE index.info[k]]]

\* _load_single_card (utils.py:131-157): the index after the call. Every
\* failure is logged and left behind: imread returning None, descriptors being
\* None, and any exception, which the except clause catches.
stores_failed_card(index, card_path, card_set, card_name) ==
  IF card_path.file.content = "raises" THEN index
  ELSE DictSet(index, CardId(card_set, card_name), card_path)
_load_single_card(index, card_path, card_set, card_name) ==
  IF card_path.file.content = "raises" THEN index
  ELSE IF card_path.file.content = "undecodable" THEN index
  ELSE IF card_path.file.content = "nodesc" THEN index
  ELSE DictSet(index, CardId(card_set, card_name), card_path)

\* for card_file in os.listdir(set_dir) (utils.py:170-176).
RECURSIVE LoadSet(_, _, _)
LoadSet(index, card_set, files) ==
  IF files = <<>> THEN index
  ELSE LET card_file == Head(files)
           next == IF ~ IsImageFile(card_file) THEN index
                   ELSE _load_single_card(index, CardPath(card_set, card_file),
                                          card_set, SplitExtStem(card_file))
       IN LoadSet(next, card_set, Tail(files))

\* for card_set in os.listdir(self.reference_dir) (utils.py:165-176).
RECURSIVE LoadEntries(_, _)
LoadEntries(index, entries) ==
  IF entries = <<>> THEN index
  ELSE LET e == Head(entries)
           next == IF ~ e.isdir THEN index ELSE LoadSet(index, e.name, e.files)
       IN LoadEntries(next, Tail(entries))

\* _load_reference_cards (utils.py:159-178): a directory that does not exist is
\* logged and the method returns; nothing is raised.
_load_reference_cards(index, tree) ==
  IF ~ tree.exists THEN index ELSE LoadEntries(index, tree.entries)

\* The directories a matcher is built over in BuildSpec: a missing one, an
\* empty one, one holding only a plain file, one card set (after a plain file
\* or not), and two card sets with a card of the same name in the second.
BuildTrees ==
  {Tree(FALSE, <<>>), Tree(TRUE, <<>>), Tree(TRUE, <<PlainFile("README.md")>>)}
    \cup {Tree(TRUE, <<SetDir("hSD01", l)>>) : l \in Listings(MaxFiles)}
    \cup {Tree(TRUE, <<PlainFile("README.md"), SetDir("hSD01", l)>>) :
            l \in Listings(MaxFiles)}
    \cup {Tree(TRUE, <<SetDir("hSD01", l),
                       SetDir("hBP01", <<File("001", "png", "ok")>>)>>) :
            l \in Listings(MaxFiles)}

\* The directory behind a given index: one card set whose readable png files
\* are listed in the order of the index.
IndexTrees ==
  {Tree(TRUE, <<SetDir("hSD01", l)>>) :
     l \in {x \in Listings(Cardinality(CardIds)) :
              \A i \in DOMAIN x : x[i].ext = "png" /\ x[i].content = "ok"}}
TreeOf(refs) ==
  CHOOSE t \in IndexTrees : _load_reference_cards(EmptyIndex, t).keys = refs

\* ------------------------------------------------------------ CardDetector
\* Confidences of the model's boxes and conf_threshold values, in hundredths.
Confs == {0, 25, 50, 90}
ConfThresholds == {0, 25, 50}

\* if box.conf[0] > conf_threshold (detector.py:34)
keeps_box_at_threshold(conf, conf_threshold) == conf >= conf_threshold
KeepsBox(conf, conf_threshold) == conf > conf_threshold

\* CardDetector.detect (detector.py:15-39) on the boxes the model returns, in
\* order: the detections kept, each with the position of its box and its
\* confidence.
RECURSIVE detect(_, _)
detect(boxes, conf_threshold) ==
  IF boxes = <<>> THEN <<>>
  ELSE LET n == Len(boxes)
           rest == detect(SubSeq(boxes, 1, n - 1), conf_threshold)
       IN IF KeepsBox(boxes[n], conf_threshold)
          THEN Append(rest, [box |-> n, conf |-> boxes[n]])
          ELSE rest

\* ------------------------------------------------------------ camera data
Workers == 1..MaxSessions

\* threading.Lock (camera_analyzer.py:27): free, or held by one thread.
LockFree == <<"free", 0>>
HeldByMain == <<"main", 0>>
HeldBy(w) == <<"worker", w>>

\* What a detected box crops out of the frame: a card the index knows ("hit"),
\* a region with too few matches ("weak"), a region on which BFMatcher.match
\* raises ("bad"), or an empty crop ("empty", card_image.size == 0).
CropKinds == {"hit", "weak", "bad", "empty"}

\* The frames the device delivers, each as the crops of its detections in
\* order: nothing detected, one empty crop only, one weak region, two known
\* cards, a known card followed by a region that makes matching raise.
FrameDetections ==
  {<<>>, <<"empty">>, <<"weak">>, <<"hit", "hit">>, <<"hit", "bad">>}

Repeat(x, n) == [i \in 1..n |-> x]

\* The reference index of the camera sessions and what matching a crop against
\* it gives: the BFMatcher outputs behind find_matches for each kind of crop.
CameraIndex == <<"hSD01/001", "hSD01/002">>
CameraQuery(kind) ==
  IF kind = "hit"
  THEN [desc |-> TRUE,
        out |-> [c \in CardIds |->
                   IF c = "hSD01/001" THEN Repeat(10, DefaultMinMatchCount)
                   ELSE Repeat(40, DefaultMinMatchCount)]]
  ELSE [desc |-> TRUE, out |-> [c \in CardIds |-> Repeat(10, 5)]]

NoBatch == [id |-> 0, items |-> <<>>]

\* process_frame's loop over the detections (camera_analyzer.py:74-86): the
\* non-empty crops, each with its detection (i, bbox, conf); the frame number
\* stands for the boxes of that frame.
RECURSIVE Crops(_, _)
Crops(dets, f) ==
  IF dets = <<>> THEN <<>>
  ELSE LET n == Len(dets)
           rest == Crops(SubSeq(dets, 1, n - 1), f)
       IN IF dets[n] = "empty" THEN rest
          ELSE Append(rest, [image |-> dets[n], det |-> <<n - 1, f>>])

\* Queue.put_nowait on Queue(maxsize=1) (camera_analyzer.py:28, 91): the queue
\* after the call and whether Full was raised.
put_nowait_unbounded(q, item) == [queue |-> Append(q, item), full |-> FALSE]
put_nowait(q, item) ==
  IF Len(q) >= QueueMaxSize
  THEN [queue |-> q, full |-> TRUE]
  ELSE [queue |-> Append(q, item), full |-> FALSE]

\* self.find_matches(card_image) in a camera session (camera_analyzer.py:41):
\* the analyzer's index and thresholds are fixed at construction, so the list
\* for each kind of crop is computed once.
CameraMatches ==
  [kind \in {"hit", "weak"} |->
     find_matches(CameraIndex, DefaultMinMatchCount, DefaultScoreThreshold,
                  CameraQuery(kind), 0)]

\* One pass of the worker's for loop (camera_analyzer.py:40-43): new_matches
\* after matching the crop.
MatchCrop(item, matches) ==
  IF CameraMatches[item.image] # <<>>
  THEN Append(matches, [match |-> CameraMatches[item.image][1], det |-> item.det])
  ELSE matches

\* The list the worker builds for a whole batch when no crop raises.
RECURSIVE ResultOf(_)
ResultOf(items) ==
  IF items = <<>> THEN <<>>
  ELSE MatchCrop(items[Len(items)], ResultOf(SubSeq(items, 1, Len(items) - 1)))

Raises(items) == \E i \in DOMAIN items : items[i].image = "bad"

\* ------------------------------------------------------------ initial state
NoCall == [made |-> FALSE]

\* CameraAnalyzer.__init__ (camera_analyzer.py:15-29), before run_camera.
CameraInit ==
  /\ current_matches = <<>>
  /\ matches_lock = LockFree
  /\ processing_queue = <<>>
  /\ is_running = FALSE
  /\ main_pc = "Idle"
  /\ cap = "none"
  /\ exc = FALSE
  /\ session = 0
  /\ frames = 0
  /\ detections_with_images = NoBatch
  /\ seen = <<>>
  /\ wpc = [w \in Workers |-> "none"]
  /\ wbatch = [w \in Workers |-> NoBatch]
  /\ widx = [w \in Workers |-> 0]
  /\ new_matches = [w \in Workers |-> <<>>]
  /\ dropped = {}
  /\ skipped = {}
  /\ abandoned = {}
  /\ published = NoBatch
  /\ atStop = [w \in Workers |-> "-"]

\* A CameraAnalyzer: CardMatcher.__init__ with its defaults (utils.py:75-97).
Init ==
  /\ reference_cards = CameraIndex
  /\ min_match_count = DefaultMinMatchCount
  /\ score_threshold = DefaultScoreThreshold
  /\ reference_dir = TreeOf(CameraIndex)
  /\ card_info = _load_reference_cards(EmptyIndex, reference_dir).info
  /\ ctor = "built"
  /\ call = NoCall
  /\ scored = NoCall
  /\ detect_call = NoCall
  /\ CameraInit

mainLocals == <<detections_with_images, seen>>
workerVars == <<wpc, wbatch, widx, new_matches>>
sharedVars == <<current_matches, matches_lock, processing_queue>>
histVars == <<dropped, skipped, abandoned, published, atStop>>
matcherVars == <<reference_cards, min_match_count, score_threshold,
                 reference_dir, card_info, ctor>>
fixedVars == <<matcherVars, call, scored, detect_call>>

\* Where a worker stands when the stop flag is cleared: between its loop test
\* and get_nowait with a batch waiting ("armed") or with none ("poll"), at the
\* loop test or asleep ("idle"), inside a batch ("busy"), or not running ("-").
StandsAt(pc, queue) ==
  CASE pc = "get" -> IF queue # <<>> THEN "armed" ELSE "poll"
    [] pc \in {"check", "sleep"} -> "idle"
    [] pc \in {"for", "publish"} -> "busy"
    [] OTHER -> "-"

\* ------------------------------------------------------------ run_camera
\* A call of run_camera on the analyzer (from Idle, or again after an earlier
\* call has returned or raised) whose device does not open:
\* cap = cv2.VideoCapture(camera_id); if not cap.isOpened(): print; return
\* (camera_analyzer.py:159-164).
CanCall ==
  /\ main_pc \in {"Idle", "Stopped", "Raised"}
  /\ session < MaxSessions

OpenFail_starts_first ==
  /\ CanCall
  /\ session' = session + 1
  /\ cap' = "unopened"
  /\ exc' = FALSE
  /\ is_running' = TRUE
  /\ wpc' = [wpc EXCEPT ![session'] = "check"]
  /\ main_pc' = "Stopped"
  /\ UNCHANGED <<fixedVars, sharedVars, frames, mainLocals, wbatch, widx,
                 new_matches, histVars>>
OpenFail ==
  /\ CanCall
  /\ session' = session + 1
  /\ cap' = "unopened"
  /\ exc' = FALSE
  /\ main_pc' = "Stopped"
  /\ UNCHANGED <<fixedVars, sharedVars, is_running, frames, mainLocals,
                 workerVars, histVars>>

\* A call of run_camera whose device opens (camera_analyzer.py:159-167).
OpenOk ==
  /\ CanCall
  /\ session' = session + 1
  /\ cap' = "open"
  /\ exc' = FALSE
  /\ main_pc' = "set_running"
  /\ UNCHANGED <<fixedVars, sharedVars, is_running, frames, mainLocals,
                 workerVars, histVars>>

\* self.is_running = True (camera_analyzer.py:170).
SetRunning ==
  /\ main_pc = "set_running"
  /\ is_running' = TRUE
  /\ atStop' = [w \in Workers |-> "-"]
  /\ main_pc' = "start_thread"
  /\ UNCHANGED <<fixedVars, sharedVars, cap, exc, session, frames,
                 mainLocals, workerVars, dropped, skipped, abandoned,
                 published>>

\* Thread(target=self.matching_worker, daemon=True).start()
\* (camera_analyzer.py:171-172).
StartThread ==
  /\ main_pc = "start_thread"
  /\ wpc' = [wpc EXCEPT ![session] = "check"]
  /\ main_pc' = "read"
  /\ UNCHANGED <<fixedVars, sharedVars, is_running, cap, exc, session, frames,
                 mainLocals, wbatch, widx, new_matches, histVars>>

\* Thread.start() raises RuntimeError (no thread can be started). The statement
\* stands before the try block (camera_analyzer.py:172-174), so the exception
\* leaves run_camera without passing through finally.
StartThreadFail ==
  /\ main_pc = "start_thread"
  /\ main_pc' = "Raised"
  /\ UNCHANGED <<fixedVars, sharedVars, is_running, cap, exc, session, frames,
                 mainLocals, workerVars, histVars>>

\* ret, frame = cap.read() with ret true (camera_analyzer.py:176), then
\* process_frame up to the batch: resize, detect and crop
\* (camera_analyzer.py:63-86).
ReadFrame ==
  /\ main_pc = "read"
  /\ frames < MaxFrames
  /\ frames' = frames + 1
  /\ \E dets \in FrameDetections :
       detections_with_images' = [id |-> frames', items |-> Crops(dets, frames')]
  /\ main_pc' = "submit"
  /\ UNCHANGED <<fixedVars, sharedVars, is_running, cap, exc, session,
                 seen, workerVars, histVars>>

\* if not ret: break (camera_analyzer.py:177-179).
ReadFail ==
  /\ main_pc = "read"
  /\ main_pc' = "fin_stop"
  /\ UNCHANGED <<fixedVars, sharedVars, is_running, cap, exc, session, frames,
                 mainLocals, workerVars, histVars>>

\* An exception inside the while loop: process_frame's resize or detection
\* raising on the frame, or imshow/waitKey raising; control goes to finally.
LoopRaise ==
  /\ main_pc \in {"read", "show"}
  /\ exc' = TRUE
  /\ seen' = <<>>
  /\ main_pc' = "fin_stop"
  /\ UNCHANGED <<fixedVars, sharedVars, is_running, cap, session, frames,
                 detections_with_images, workerVars, histVars>>

\* cv2.waitKey(1) returns 'q': break (camera_analyzer.py:185-191).
KeyQuit ==
  /\ main_pc = "show"
  /\ main_pc' = "fin_stop"
  /\ seen' = <<>>
  /\ UNCHANGED <<fixedVars, sharedVars, is_running, cap, exc, session, frames,
                 detections_with_images, workerVars, histVars>>

\* Any other key, 's' (save the frame) included: next iteration
\* (camera_analyzer.py:192-195).
KeyContinue ==
  /\ main_pc = "show"
  /\ \E key \in {"s", "none"} : main_pc' = "read"
  /\ seen' = <<>>
  /\ UNCHANGED <<fixedVars, sharedVars, is_running, cap, exc, session, frames,
                 detections_with_images, workerVars, histVars>>

\* finally: self.is_running = False (camera_analyzer.py:196-198).
FinStop ==
  /\ main_pc = "fin_stop"
  /\ is_running' = FALSE
  /\ atStop' = [w \in Workers |-> StandsAt(wpc[w], processing_queue)]
  /\ main_pc' = "join"
  /\ UNCHANGED <<fixedVars, sharedVars, cap, exc, session, frames,
                 mainLocals, workerVars, dropped, skipped, abandoned,
                 published>>

\* matching_thread.join(timeout=1.0) returns, when the worker has ended or
\* when the timeout has elapsed, whichever is first; then cap.release() and
\* cv2.destroyAllWindows() (camera_analyzer.py:199-201); then run_camera
\* returns, or the loop's exception propagates.
JoinRelease ==
  /\ main_pc = "join"
  /\ cap' = "released"
  /\ main_pc' = IF exc THEN "Raised" ELSE "Stopped"
  /\ UNCHANGED <<fixedVars, sharedVars, is_running, exc, session, frames,
                 mainLocals, workerVars, histVars>>

\* ------------------------------------------------------------ process_frame
\* try: if detections_with_images: put_nowait(...) except: print
\* (camera_analyzer.py:88-94).
Submit_puts_every_batch ==
  /\ main_pc = "submit"
  /\ LET r == put_nowait(processing_queue, detections_with_images)
     IN /\ processing_queue' = r.queue
        /\ dropped' = IF r.full
                      THEN dropped \cup {detections_with_images.id}
                      ELSE dropped
  /\ detections_with_images' = NoBatch
  /\ main_pc' = "acquire"
  /\ UNCHANGED <<fixedVars, current_matches, matches_lock, is_running, cap, exc,
                 session, frames, seen, workerVars, skipped, abandoned,
                 published, atStop>>
Submit ==
  /\ main_pc = "submit"
  /\ IF detections_with_images.items # <<>>
     THEN LET r == put_nowait(processing_queue, detections_with_images)
          IN /\ processing_queue' = r.queue
             /\ dropped' = IF r.full
                           THEN dropped \cup {detections_with_images.id}
                           ELSE dropped
             /\ skipped' = skipped
     ELSE /\ skipped' = skipped \cup {detections_with_images.id}
          /\ UNCHANGED <<processing_queue, dropped>>
  /\ detections_with_images' = NoBatch
  /\ main_pc' = "acquire"
  /\ UNCHANGED <<fixedVars, current_matches, matches_lock, is_running, cap, exc,
                 session, frames, seen, workerVars, abandoned, published,
                 atStop>>

\* with self.matches_lock: (camera_analyzer.py:98).
AcquireMain ==
  /\ main_pc = "acquire"
  /\ matches_lock = LockFree
  /\ matches_lock' = HeldByMain
  /\ main_pc' = "copy"
  /\ UNCHANGED <<fixedVars, current_matches, processing_queue, is_running, cap,
                 exc, session, frames, mainLocals, workerVars, histVars>>

\* current_matches = self.current_matches.copy(), and the lock is released
\* (camera_analyzer.py:98-99); drawing follows on the copy.
Copy ==
  /\ main_pc = "copy"
  /\ seen' = current_matches
  /\ matches_lock' = LockFree
  /\ main_pc' = "show"
  /\ UNCHANGED <<fixedVars, current_matches, processing_queue, is_running, cap,
                 exc, session, frames, detections_with_images,
                 workerVars, histVars>>

\* ------------------------------------------------------------ matching_worker

\* while self.is_running: (camera_analyzer.py:33).
W_Check_ignores_flag(w) ==
  /\ wpc[w] = "check"
  /\ wpc' = [wpc EXCEPT ![w] = "get"]
  /\ UNCHANGED <<fixedVars, sharedVars, is_running, main_pc, cap, exc, session,
                 frames, mainLocals, wbatch, widx, new_matches, histVars>>
W_Check(w) ==
  /\ wpc[w] = "check"
  /\ wpc' = [wpc EXCEPT ![w] = IF is_running THEN "get" ELSE "done"]
  /\ atStop' = IF is_running THEN atStop ELSE [atStop EXCEPT ![w] = "-"]
  /\ UNCHANGED <<fixedVars, sharedVars, is_running, main_pc, cap, exc, session,
                 frames, mainLocals, wbatch, widx, new_matches, dropped,
                 skipped, abandoned, published>>

\* get_nowait() (camera_analyzer.py:36-37): the batch, or Empty, which the bare
\* except turns into the sleep.
W_Get(w) ==
  /\ wpc[w] = "get"
  /\ IF processing_queue # <<>>
     THEN /\ wbatch' = [wbatch EXCEPT ![w] = Head(processing_queue)]
          /\ processing_queue' = Tail(processing_queue)
          /\ new_matches' = [new_matches EXCEPT ![w] = <<>>]
          /\ widx' = [widx EXCEPT ![w] = 1]
          /\ wpc' = [wpc EXCEPT ![w] = "for"]
          /\ atStop' = IF is_running THEN atStop
                       ELSE [atStop EXCEPT ![w] = "took"]
     ELSE /\ wpc' = [wpc EXCEPT ![w] = "sleep"]
          /\ atStop' = IF is_running THEN atStop
                       ELSE [atStop EXCEPT ![w] = "slept"]
          /\ UNCHANGED <<wbatch, processing_queue, new_matches, widx>>
  /\ UNCHANGED <<fixedVars, current_matches, matches_lock, is_running, main_pc,
                 cap, exc, session, frames, mainLocals, dropped, skipped,
                 abandoned, published>>

\* One iteration of the for loop (camera_analyzer.py:40-43).
W_Match_in_place(w) ==
  /\ wpc[w] = "for"
  /\ widx[w] <= Len(wbatch[w].items)
  /\ wbatch[w].items[widx[w]].image # "bad"
  /\ current_matches' = MatchCrop(wbatch[w].items[widx[w]],
                                  IF widx[w] = 1 THEN <<>> ELSE current_matches)
  /\ new_matches' = [new_matches EXCEPT ![w] = current_matches']
  /\ widx' = [widx EXCEPT ![w] = widx[w] + 1]
  /\ UNCHANGED <<fixedVars, matches_lock, processing_queue, is_running, main_pc,
                 cap, exc, session, frames, mainLocals, wpc, wbatch,
                 histVars>>
W_Match_under_lock(w) ==
  /\ wpc[w] = "for"
  /\ widx[w] <= Len(wbatch[w].items)
  /\ wbatch[w].items[widx[w]].image # "bad"
  /\ matches_lock \in {LockFree, HeldBy(w)}
  /\ matches_lock' = HeldBy(w)
  /\ new_matches' = [new_matches EXCEPT ![w] =
                       MatchCrop(wbatch[w].items[widx[w]], new_matches[w])]
  /\ widx' = [widx EXCEPT ![w] = widx[w] + 1]
  /\ UNCHANGED <<fixedVars, current_matches, processing_queue, is_running,
                 main_pc, cap, exc, session, frames, mainLocals, wpc, wbatch,
                 histVars>>
W_Match(w) ==
  /\ wpc[w] = "for"
  /\ widx[w] <= Len(wbatch[w].items)
  /\ wbatch[w].items[widx[w]].image # "bad"
  /\ new_matches' = [new_matches EXCEPT ![w] =
                       MatchCrop(wbatch[w].items[widx[w]], new_matches[w])]
  /\ widx' = [widx EXCEPT ![w] = widx[w] + 1]
  /\ UNCHANGED <<fixedVars, sharedVars, is_running, main_pc, cap, exc, session,
                 frames, mainLocals, wpc, wbatch, histVars>>

\* find_matches raises inside the loop: the bare except catches it
\* (camera_analyzer.py:50-52), the batch and what was matched of it are
\* abandoned, and the worker sleeps.
W_MatchRaises_publishes(w) ==
  /\ wpc[w] = "for"
  /\ widx[w] <= Len(wbatch[w].items)
  /\ wbatch[w].items[widx[w]].image = "bad"
  /\ current_matches' = new_matches[w]
  /\ wpc' = [wpc EXCEPT ![w] = "sleep"]
  /\ wbatch' = [wbatch EXCEPT ![w] = NoBatch]
  /\ new_matches' = [new_matches EXCEPT ![w] = <<>>]
  /\ widx' = [widx EXCEPT ![w] = 0]
  /\ abandoned' = abandoned \cup {wbatch[w].id}
  /\ UNCHANGED <<fixedVars, matches_lock, processing_queue, is_running, main_pc,
                 cap, exc, session, frames, mainLocals, dropped, skipped,
                 published, atStop>>
W_MatchRaises(w) ==
  /\ wpc[w] = "for"
  /\ widx[w] <= Len(wbatch[w].items)
  /\ wbatch[w].items[widx[w]].image = "bad"
  /\ wpc' = [wpc EXCEPT ![w] = "sleep"]
  /\ wbatch' = [wbatch EXCEPT ![w] = NoBatch]
  /\ new_matches' = [new_matches EXCEPT ![w] = <<>>]
  /\ widx' = [widx EXCEPT ![w] = 0]
  /\ abandoned' = abandoned \cup {wbatch[w].id}
  /\ UNCHANGED <<fixedVars, sharedVars, is_running, main_pc, cap, exc, session,
                 frames, mainLocals, dropped, skipped, published, atStop>>

\* with self.matches_lock: (camera_analyzer.py:46), after the loop.
W_Acquire(w) ==
  /\ wpc[w] = "for"
  /\ widx[w] > Len(wbatch[w].items)
  /\ matches_lock = LockFree
  /\ matches_lock' = HeldBy(w)
  /\ wpc' = [wpc EXCEPT ![w] = "publish"]
  /\ UNCHANGED <<fixedVars, current_matches, processing_queue, is_running,
                 main_pc, cap, exc, session, frames, mainLocals,
                 wbatch, widx, new_matches, histVars>>

\* self.current_matches = new_matches, the lock is released, and
\* self.processing_queue.task_done() (camera_analyzer.py:46-49); back to the
\* while.
W_Publish(w) ==
  /\ wpc[w] = "publish"
  /\ current_matches' = new_matches[w]
  /\ matches_lock' = LockFree
  /\ wpc' = [wpc EXCEPT ![w] = "check"]
  /\ wbatch' = [wbatch EXCEPT ![w] = NoBatch]
  /\ new_matches' = [new_matches EXCEPT ![w] = <<>>]
  /\ widx' = [widx EXCEPT ![w] = 0]
  /\ published' = wbatch[w]
  /\ UNCHANGED <<fixedVars, processing_queue, is_running, main_pc, cap, exc,
                 session, frames, mainLocals, dropped, skipped, abandoned,
                 atStop>>

\* time.sleep(0.01) returns (camera_analyzer.py:52), back to the while.
W_Sleep_retries_get(w) ==
  /\ wpc[w] = "sleep"
  /\ wpc' = [wpc EXCEPT ![w] = "get"]
  /\ UNCHANGED <<fixedVars, sharedVars, is_running, main_pc, cap, exc, session,
                 frames, mainLocals, wbatch, widx, new_matches, histVars>>
W_Sleep(w) ==
  /\ wpc[w] = "sleep"
  /\ wpc' = [wpc EXCEPT ![w] = "check"]
  /\ UNCHANGED <<fixedVars, sharedVars, is_running, main_pc, cap, exc, session,
                 frames, mainLocals, wbatch, widx, new_matches, histVars>>

WorkerStep(w) ==
  \/ W_Check(w)
  \/ W_Get(w)
  \/ W_Match(w)
  \/ W_MatchRaises(w)
  \/ W_Acquire(w)
  \/ W_Publish(w)
  \/ W_Sleep(w)

\* ------------------------------------------------------------ specification
MainStep ==
  \/ OpenFail
  \/ OpenOk
  \/ SetRunning
  \/ StartThread
  \/ StartThreadFail
  \/ ReadFrame
  \/ ReadFail
  \/ LoopRaise
  \/ Submit
  \/ AcquireMain
  \/ Copy
  \/ KeyQuit
  \/ KeyContinue
  \/ FinStop
  \/ JoinRelease

Next == MainStep \/ \E w \in Workers : WorkerStep(w)

Spec == Init /\ [][Next]_vars

\* The interpreter schedules every live thread: a worker that can take a step
\* eventually takes one, and each find_matches call returns.
FairSpec == Spec /\ \A w \in Workers : WF_vars(WorkerStep(w))

\* ------------------------------------------------------------ the matcher alone
cameraVars == <<sharedVars, is_running, main_pc, cap, exc, session, frames,
                mainLocals, workerVars, histVars>>

\* A CardMatcher built with some min_match_count and score_threshold over some
\* reference index (utils.py:75-97).
MatchInit ==
  /\ reference_cards \in DistinctSeqs(CardIds)
  /\ min_match_count \in 1..MaxK
  /\ score_threshold \in Thresholds
  /\ reference_dir = TreeOf(reference_cards)
  /\ card_info = _load_reference_cards(EmptyIndex, reference_dir).info
  /\ ctor = "built"
  /\ call = NoCall
  /\ scored = NoCall
  /\ detect_call = NoCall
  /\ CameraInit

\* A call find_matches(query_img, min_match_count) (utils.py:180-211), recorded
\* with the sorted match list and the score of every reference card the loop
\* went through (none when the query has no descriptors). The function keeps
\* no state between calls, so one call per matcher covers them all.
FindMatchesCall ==
  /\ ~ call.made
  /\ \E desc \in BOOLEAN, k_arg \in 0..MaxK,
     out \in [Range(reference_cards) -> SeqsUpTo(Distances, MaxMatches)] :
       LET q == [desc |-> desc, out |-> out]
           K == EffectiveK(k_arg, min_match_count)
           looped == IF _extract_features(q) THEN Range(reference_cards) ELSE {}
       IN call' = [made |-> TRUE, q |-> q, k |-> K,
                   sorted |-> [c \in looped |-> SortByDistance(out[c])],
                   scores |-> [c \in looped |-> CardScore(q, c, K)],
                   result |-> find_matches(reference_cards, min_match_count,
                                           score_threshold, q, k_arg)]
  /\ UNCHANGED <<matcherVars, scored, detect_call, cameraVars>>

MatchNext == FindMatchesCall

MatchSpec == MatchInit /\ [][MatchNext]_vars

\* ------------------------------------------------------------ scoring alone
\* Two queries matched against the same reference card by one matcher
\* (utils.py:202-206): for each, what BFMatcher.match returns, its sorted list
\* and the score, under the same min_match_count in force.
ScoreInit ==
  /\ reference_cards = CameraIndex
  /\ min_match_count \in 1..MaxK
  /\ score_threshold = DefaultScoreThreshold
  /\ reference_dir = TreeOf(CameraIndex)
  /\ card_info = _load_reference_cards(EmptyIndex, reference_dir).info
  /\ ctor = "built"
  /\ call = NoCall
  /\ scored = NoCall
  /\ detect_call = NoCall
  /\ CameraInit

ScorePair ==
  /\ ~ scored.made
  /\ \E k_arg \in 0..MaxK, out1, out2 \in SeqsUpTo(Distances, MaxMatches) :
       LET K == EffectiveK(k_arg, min_match_count)
           m1 == SortByDistance(out1)
           m2 == SortByDistance(out2)
       IN scored' = [made |-> TRUE, k |-> K, m1 |-> m1, m2 |-> m2,
                     score1 |-> _calculate_match_score(m1, K),
                     score2 |-> _calculate_match_score(m2, K)]
  /\ UNCHANGED <<matcherVars, call, detect_call, cameraVars>>

ScoreNext == ScorePair

ScoreSpec == ScoreInit /\ [][ScoreNext]_vars

\* ------------------------------------------------------------ the build alone
\* A CardMatcher about to be constructed with the default counts over some
\* directory: self.reference_cards = {} (utils.py:87-90).
BuildInit ==
  /\ reference_cards = <<>>
  /\ card_info = <<>>
  /\ min_match_count = DefaultMinMatchCount
  /\ score_threshold = DefaultScoreThreshold
  /\ reference_dir \in BuildTrees
  /\ ctor = "new"
  /\ call = NoCall
  /\ scored = NoCall
  /\ detect_call = NoCall
  /\ CameraInit

\* The rest of CardMatcher.__init__: self._load_reference_cards()
\* (utils.py:97); the constructor returns the matcher whatever the directory.
CardMatcherInit ==
  /\ ctor = "new"
  /\ LET index == _load_reference_cards(EmptyIndex, reference_dir)
     IN /\ reference_cards' = index.keys
        /\ card_info' = index.info
  /\ ctor' = "built"
  /\ UNCHANGED <<min_match_count, score_threshold, reference_dir, call, scored,
                 detect_call, cameraVars>>

\* What BFMatcher.match gives for a reference card in BuildSpec: nothing, or
\* enough close matches to pass the default threshold.
BuildOutputs == {<<>>, Repeat(10, DefaultMinMatchCount)}

\* A find_matches call on the matcher just built (utils.py:180-211).
FindMatchesBuilt ==
  /\ ctor = "built"
  /\ ~ call.made
  /\ \E desc \in BOOLEAN, k_arg \in {0, 1},
        out \in [Range(reference_cards) -> BuildOutputs] :
       LET q == [desc |-> desc, out |-> out]
           K == EffectiveK(k_arg, min_match_count)
           looped == IF _extract_features(q) THEN Range(reference_cards) ELSE {}
       IN call' = [made |-> TRUE, q |-> q, k |-> K,
                   sorted |-> [c \in looped |-> SortByDistance(out[c])],
                   scores |-> [c \in looped |-> CardScore(q, c, K)],
                   result |-> find_matches(reference_cards, min_match_count,
                                           score_threshold, q, k_arg)]
  /\ UNCHANGED <<matcherVars, scored, detect_call, cameraVars>>

BuildNext == CardMatcherInit \/ FindMatchesBuilt

BuildSpec == BuildInit /\ [][BuildNext]_vars

\* ------------------------------------------------------------ the detector alone
DetectInit ==
  /\ reference_cards = CameraIndex
  /\ min_match_count = DefaultMinMatchCount
  /\ score_threshold = DefaultScoreThreshold
  /\ reference_dir = TreeOf(CameraIndex)
  /\ card_info = _load_reference_cards(EmptyIndex, reference_dir).info
  /\ ctor = "built"
  /\ call = NoCall
  /\ scored = NoCall
  /\ detect_call = NoCall
  /\ CameraInit

\* A call CardDetector.detect(image, conf_threshold) (detector.py:15-39) on an
\* image for which the model returns the given boxes.
DetectCall ==
  /\ ~ detect_call.made
  /\ \E boxes \in SeqsUpTo(Confs, MaxBoxes), conf_threshold \in ConfThresholds :
       detect_call' = [made |-> TRUE, boxes |-> boxes,
                       conf_threshold |-> conf_threshold,
                       detections |-> detect(boxes, conf_threshold)]
  /\ UNCHANGED <<matcherVars, call, scored, cameraVars>>

DetectNext == DetectCall

DetectSpec == DetectInit /\ [][DetectNext]_vars

\* ============================================================ claims
RECURSIVE SeqSum(_)
SeqSum(s) == IF s = <<>> THEN 0 ELSE Head(s) + SeqSum(Tail(s))

ResultIds == {call.result[i][1] : i \in DOMAIN call.result}

\* C8: the list find_matches returns is sorted by non-increasing score (each
\* score is at least the next one) and names every card identity at most once.
C8_SortedDistinct ==
  call.made =>
    /\ \A i \in 1..(Len(call.result) - 1) :
         call.result[i][2].n * call.result[i + 1][2].d
           >= call.result[i + 1][2].n * call.result[i][2].d
    /\ \A i, j \in DOMAIN call.result :
         i # j => call.result[i][1] # call.result[j][1]

\* C8 witness: a call whose two results had to be reordered: the card that is
\* second in the index comes first, with a strictly higher score.
C8_Witness ==
  /\ call.made
  /\ Len(reference_cards) = 2
  /\ Len(call.result) = 2
  /\ call.result[1][1] = reference_cards[2]
  /\ FracGT(call.result[1][2], call.result[2][2])

C10_DistancePolicy ==
  call.made =>
    \A c \in DOMAIN call.scores :
      LET m == call.sorted[c]
          K == call.k
          score == call.scores[c]
          top == SeqSum(SubSeq(m, 1, K))
      IN /\ K >= 1
         /\ \A i \in 1..(Len(m) - 1) : m[i] <= m[i + 1]
         /\ Len(m) = Len(call.q.out[c])
         /\ Len(m) < K => score.n = 0
         /\ Len(m) >= K =>
              /\ score.d > 0
              /\ score.n * K = Max2(0, 100 * K - top) * score.d
         /\ score.n >= 0
         /\ score.n <= 100 * score.d
         /\ m = <<>> => score.n = 0

\* C10 witness: one call in which a card has enough matches and an average
\* distance above 100 (floored to 0), and another card has matches but fewer
\* than K.
C10_Witness ==
  /\ call.made
  /\ \E c \in DOMAIN call.scores :
       /\ Len(call.sorted[c]) >= call.k
       /\ SeqSum(SubSeq(call.sorted[c], 1, call.k)) > 100 * call.k
       /\ call.scores[c].n = 0
  /\ \E c \in DOMAIN call.scores :
       /\ call.sorted[c] # <<>>
       /\ Len(call.sorted[c]) < call.k

Alive(w) == wpc[w] \notin {"none", "done"}

\* C1: the hand-off is a non-blocking put on a one-slot queue: the queue never
\* holds more than one batch, process_frame at its submit can always go on
\* (it never waits for room), and a batch dropped because the slot was taken
\* is never in the queue, in a worker's hands or published afterwards.
C1_SingleSlotDrop ==
  /\ Len(processing_queue) <= 1
  /\ main_pc = "submit" => ENABLED Submit
  /\ \A i \in DOMAIN processing_queue : processing_queue[i].id \notin dropped
  /\ \A w \in Workers : wbatch[w].id \notin dropped
  /\ published.id \notin dropped

\* C1 witness: a batch has been dropped, the slot is still taken by the earlier
\* batch, and process_frame has moved on from the submit.
C1_Witness ==
  /\ dropped # {}
  /\ Len(processing_queue) = 1
  /\ main_pc = "acquire"

\* The complete result lists: what the worker's loop builds for a whole batch
\* of some frame read so far.
CompleteResults ==
  {ResultOf(Crops(d, f)) :
     d \in {x \in FrameDetections : ~ Raises(Crops(x, 0))}, f \in 1..frames}

\* C2: what process_frame reads under matches_lock is a complete snapshot: at
\* the copy, current_matches is the initial empty list or the whole result list
\* of the one batch published last, and the copy it draws from is the empty
\* list or the complete list of a single batch.
C2_CompleteSnapshot ==
  /\ main_pc = "copy" =>
       /\ current_matches = ResultOf(published.items)
       /\ ~ Raises(published.items)
  /\ main_pc = "show" => (seen = <<>> \/ seen \in CompleteResults)

\* C2 witness: the reader holds a copy with both entries of a two-card batch
\* while a worker is part-way through a later batch.
C2_Witness ==
  /\ main_pc = "show"
  /\ Len(seen) = 2
  /\ \E w \in Workers : wpc[w] = "for" /\ Len(new_matches[w]) = 1

\* C3 as claimed: once the device has been opened, every way out of run_camera
\* leaves it released, with the stop flag cleared.
C3_AsClaimed ==
  (main_pc \in {"Stopped", "Raised"} /\ cap \notin {"none", "unopened"}) =>
    (cap = "released" /\ ~ is_running)

\* C4: a call whose device does not open goes straight to Stopped with no
\* partial start: the step leaves is_running, the worker threads, the frame
\* count, the queue and current_matches as they were, and the call's worker
\* is never started.
C4_NoPartialStart ==
  /\ []((main_pc = "Stopped" /\ cap = "unopened") => wpc[session] = "none")
  /\ [][(session' # session /\ cap' = "unopened") =>
          /\ main_pc' = "Stopped"
          /\ is_running' = is_running
          /\ wpc' = wpc
          /\ frames' = frames
          /\ processing_queue' = processing_queue
          /\ current_matches' = current_matches]_vars

\* C4 witness: the first call on a fresh analyzer has ended on the device
\* error.
C4_Witness ==
  /\ main_pc = "Stopped"
  /\ cap = "unopened"
  /\ session = 1
  /\ ~ is_running

\* C5 as claimed: while the stop flag is cleared no worker takes a batch from
\* the queue.
C5_AsClaimed ==
  [][(~ is_running) =>
       \A w \in Workers : ~ (wpc[w] = "get" /\ wpc'[w] = "for")]_vars

\* C5 amended: while the stop flag is cleared, a worker stands before
\* get_nowait only if it had passed its loop test before the flag was cleared
\* and has not called get_nowait since; so it takes at most one further batch,
\* and a worker that tests the flag after the signal takes none.
C5_OnlyArmedTakes ==
  \A w \in Workers :
    (~ is_running) =>
      /\ wpc[w] = "get" => atStop[w] \in {"armed", "poll"}
      /\ atStop[w] = "took" => wpc[w] \in {"for", "publish", "sleep", "check"}

\* C5 witness: a worker has taken a batch after the flag was cleared.
C5_Witness ==
  /\ ~ is_running
  /\ \E w \in Workers : atStop[w] = "took" /\ wpc[w] = "for"

\* C6: with the flag cleared, every live worker eventually leaves its loop
\* (unless run_camera sets the flag again); and a worker that was idle at the
\* signal (at the loop test, asleep, or about to poll an empty queue) processes
\* nothing and sleeps at most once more before it leaves.
C6_WorkerTerminates ==
  /\ \A w \in Workers :
       (~ is_running /\ Alive(w)) ~> (is_running \/ wpc[w] = "done")
  /\ [](\A w \in Workers :
          (~ is_running) =>
            /\ atStop[w] = "idle" => wpc[w] \in {"check", "sleep"}
            /\ atStop[w] = "poll" => wpc[w] = "get"
            /\ atStop[w] = "slept" => wpc[w] \in {"sleep", "check"})

\* C6 witness: the session is over, the flag is cleared and its worker has
\* left the loop.
C6_Witness ==
  /\ ~ is_running
  /\ main_pc = "Stopped"
  /\ cap = "released"
  /\ \E w \in Workers : wpc[w] = "done"

\* C7 as claimed: at no time is more than one matching_worker thread alive.
C7_AsClaimed == Cardinality({w \in Workers : Alive(w)}) <= 1

\* M2 is at least as good as M1: at least as many matches and, position by
\* position in ascending-distance order, no larger a distance.
AtLeastAsGood(m2, m1) ==
  /\ Len(m2) >= Len(m1)
  /\ \A i \in DOMAIN m1 : m2[i] <= m1[i]

\* C11: the score is monotone in match quality: for two match lists against
\* the same reference under the same count K, if the second is at least as
\* good as the first then its score is at least the first's score.
C11_Monotone ==
  (scored.made /\ AtLeastAsGood(scored.m2, scored.m1)) =>
    scored.score2.n * scored.score1.d >= scored.score1.n * scored.score2.d

\* C11 witness: the better list has more matches and a smaller distance in
\* the first K places; both reach K matches and the better one scores
\* strictly higher than the other's positive score.
C11_Witness ==
  /\ scored.made
  /\ AtLeastAsGood(scored.m2, scored.m1)
  /\ Len(scored.m2) > Len(scored.m1)
  /\ Len(scored.m1) >= scored.k
  /\ scored.score1.n > 0
  /\ FracGT(scored.score2, scored.score1)

\* C12 as claimed: a reference_dir that does not exist makes the build fail,
\* so no matcher is produced over it; an existing empty directory gives the
\* empty index, on which every find_matches call returns the empty list.
C12_AsClaimed ==
  /\ (~ reference_dir.exists) => ctor # "built"
  /\ (ctor = "built" /\ reference_dir.exists /\ reference_dir.entries = <<>>) =>
       /\ reference_cards = <<>>
       /\ call.made => call.result = <<>>

\* The image files of the card-set directories that load: their places
\* <<entry, file>> in listing order.
Survivors ==
  {p \in UNION {{<<e, i>> : i \in DOMAIN reference_dir.entries[e].files} :
                  e \in DOMAIN reference_dir.entries} :
     LET f == reference_dir.entries[p[1]].files[p[2]]
     IN /\ reference_dir.exists
        /\ reference_dir.entries[p[1]].isdir
        /\ IsImageFile(f)
        /\ f.content = "ok"}
KeyAt(p) ==
  CardId(reference_dir.entries[p[1]].name,
         reference_dir.entries[p[1]].files[p[2]].stem)
PathAt(p) ==
  CardPath(reference_dir.entries[p[1]].name,
           reference_dir.entries[p[1]].files[p[2]])
Later(p, r) == p[1] > r[1] \/ (p[1] = r[1] /\ p[2] >= r[2])

\* C13: per-item failures are isolated: whatever files fail to decode, raise
\* or give no descriptors, the build can always complete, and the index it
\* leaves has exactly the keys "{set}/{name}" of the files that loaded, each
\* once, each holding the last loaded file of that key, and no failed file.
C13_FailuresIsolated ==
  /\ ctor = "new" => ENABLED CardMatcherInit
  /\ ctor = "built" =>
       /\ Range(reference_cards) = {KeyAt(p) : p \in Survivors}
       /\ Len(reference_cards) = Cardinality(Range(reference_cards))
       /\ DOMAIN card_info = Range(reference_cards)
       /\ \A k \in Range(reference_cards) :
            /\ card_info[k].file.content = "ok"
            /\ \E p \in Survivors :
                 /\ KeyAt(p) = k
                 /\ card_info[k] = PathAt(p)
                 /\ \A r \in Survivors : KeyAt(r) = k => Later(p, r)

\* C13 witness: a built index with an entry whose key is shared by a file
\* that failed after the entry's file in the same directory, and the entry
\* still holds the file that loaded.
C13_Witness ==
  /\ ctor = "built"
  /\ reference_cards # <<>>
  /\ \E e \in DOMAIN reference_dir.entries :
       \E i, j \in DOMAIN reference_dir.entries[e].files :
         LET fs == reference_dir.entries[e].files
         IN /\ i < j
            /\ fs[i].content = "ok"
            /\ IsImageFile(fs[j])
            /\ fs[j].content \in {"undecodable", "raises", "nodesc"}
            /\ fs[i].stem = fs[j].stem
            /\ card_info[CardId(reference_dir.entries[e].name, fs[i].stem)].file
                 = fs[i]

DetectedBoxes == {detect_call.detections[i].box : i \in DOMAIN detect_call.detections}

\* C14 as claimed: a box is in detect's output if and only if its confidence
\* is at or above conf_threshold.
C14_AsClaimed ==
  detect_call.made =>
    \A b \in DOMAIN detect_call.boxes :
      b \in DetectedBoxes <=> detect_call.boxes[b] >= detect_call.conf_threshold

\* C14 amended: a box is in detect's output if and only if its confidence is
\* strictly greater than conf_threshold; the output lists the kept boxes once
\* each, in the model's order, with their confidences, and is the empty
\* sequence when no box qualifies.
C14_KeepsOnlyAboveThreshold ==
  detect_call.made =>
    /\ \A b \in DOMAIN detect_call.boxes :
         b \in DetectedBoxes <=> detect_call.boxes[b] > detect_call.conf_threshold
    /\ \A i \in DOMAIN detect_call.detections :
         /\ detect_call.detections[i].conf
              = detect_call.boxes[detect_call.detections[i].box]
         /\ \A j \in DOMAIN detect_call.detections :
              i < j => detect_call.detections[i].box < detect_call.detections[j].box
    /\ (\A b \in DOMAIN detect_call.boxes :
          detect_call.boxes[b] <= detect_call.conf_threshold)
         => detect_call.detections = <<>>

\* C14 witness: a call with a positive threshold in which one box has exactly
\* the threshold's confidence and is left out while another box is kept.
C14_Witness ==
  /\ detect_call.made
  /\ detect_call.conf_threshold > 0
  /\ \E b \in DOMAIN detect_call.boxes :
       /\ detect_call.boxes[b] = detect_call.conf_threshold
       /\ b \notin DetectedBoxes
  /\ detect_call.detections # <<>>

\* C15: heavy computation runs outside the lock: a worker holds matches_lock
\* exactly while it stands at the assignment of the new snapshot, and the
\* capture loop exactly while it stands at the copy; so the lock is never held
\* by a worker that is matching or by the capture loop while it reads and
\* detects, and whoever holds the lock can release it at once.
C15_HeavyOutsideLock ==
  /\ \A w \in Workers : matches_lock = HeldBy(w) <=> wpc[w] = "publish"
  /\ matches_lock = HeldByMain <=> main_pc = "copy"
  /\ \A w \in Workers : wpc[w] = "for" => matches_lock # HeldBy(w)
  /\ main_pc \in {"read", "submit"} => matches_lock # HeldByMain
  /\ main_pc = "copy" => ENABLED Copy
  /\ \A w \in Workers : wpc[w] = "publish" => ENABLED W_Publish(w)

\* C15 witness: a worker is in the middle of matching a batch (one crop done,
\* one to go) while the capture loop holds the lock for its copy.
C15_Witness ==
  /\ matches_lock = HeldByMain
  /\ main_pc = "copy"
  /\ \E w \in Workers :
       /\ wpc[w] = "for"
       /\ widx[w] = 2
       /\ Len(wbatch[w].items) = 2

QueuedIds == {processing_queue[i].id : i \in DOMAIN processing_queue}
HeldIds == {wbatch[w].id : w \in {x \in Workers : wpc[x] \in {"for", "publish"}}}

\* C16: process_frame submits a batch only when it has at least one non-empty
\* crop: its submit step with an empty batch leaves the queue and
\* current_matches alone, every batch queued or in a worker's hands is
\* non-empty, and a skipped frame's batch is never queued, held, dropped,
\* abandoned or published; current_matches changes only by a worker assigning
\* the result of the non-empty batch it consumed; and the copy the renderer
\* takes is the result of the batch published last.
C16_SubmitsOnlyNonEmpty ==
  /\ [](/\ \A i \in DOMAIN processing_queue : processing_queue[i].items # <<>>
        /\ \A w \in Workers :
             wpc[w] \in {"for", "publish"} => wbatch[w].items # <<>>
        /\ skipped \cap (QueuedIds \cup HeldIds \cup dropped \cup abandoned
                            \cup {published.id}) = {})
  /\ [][(main_pc = "submit" /\ main_pc' = "acquire"
             /\ detections_with_images.items = <<>>) =>
          /\ processing_queue' = processing_queue
          /\ current_matches' = current_matches]_vars
  /\ [][current_matches' # current_matches =>
          \E w \in Workers :
            /\ wpc[w] = "publish"
            /\ wbatch[w].items # <<>>
            /\ current_matches' = new_matches[w]
            /\ published' = wbatch[w]]_vars
  /\ [][(main_pc = "copy" /\ main_pc' = "show") =>
          seen' = ResultOf(published.items)]_vars

\* C16 witness: the second frame gave no crop and was skipped, and the
\* renderer holds the non-empty results published for the first frame's batch.
C16_Witness ==
  /\ main_pc = "show"
  /\ frames = 2
  /\ 2 \in skipped
  /\ published.id = 1
  /\ seen # <<>>
  /\ seen = ResultOf(published.items)

\* C17: when matching a region of a consumed batch raises, the worker
\* publishes nothing for it: the step leaves current_matches, the published
\* batch, the lock and the queue as they were and drops the batch; an
\* abandoned batch is never queued, held or published again; and the worker
\* stays alive: from its sleep it comes back to the loop test and, with
\* is_running true, to get_nowait.
C17_RaisePublishesNothing ==
  /\ [][\A w \in Workers :
          (wpc[w] = "for" /\ wpc'[w] = "sleep") =>
            /\ current_matches' = current_matches
            /\ published' = published
            /\ matches_lock' = matches_lock
            /\ processing_queue' = processing_queue
            /\ wbatch'[w] = NoBatch]_vars
  /\ [](abandoned \cap (QueuedIds \cup HeldIds \cup {published.id}) = {})
  /\ \A w \in Workers :
       (wpc[w] = "sleep") ~> (wpc[w] = "get" \/ ~ is_running)

\* C17 witness: the only worker gave up the first batch on an exception and is
\* now matching the second one, with is_running still true and nothing
\* published.
C17_Witness ==
  /\ session = 1
  /\ is_running
  /\ abandoned = {1}
  /\ current_matches = <<>>
  /\ published = NoBatch
  /\ wpc[1] = "for"
  /\ wbatch[1].id = 2

====
